---- MODULE Spec2Model ----
(***************************************************************************)
(* Long-running-operation client of the document-intelligence pipeline:    *)
(* begin_analyze / begin_classify submit a job, poll_result polls the      *)
(* operation handle, get_prebuilt_document_analyze_result and              *)
(* perform_ocr_processing chain the two, generate_knowledge_base_on_blob   *)
(* loops the chain over a folder and publishes blobs.                      *)
(*                                                                         *)
(* One thread of control: pc is its position.  Time is a discrete clock    *)
(* that advances only inside blocking calls (HTTP requests, time.sleep)    *)
(* and while the thread waits to be scheduled before it reads the clock.   *)
(***************************************************************************)
EXTENDS Integers, Sequences, FiniteSets, TLC

VARIABLES
    pc,                         \* position of the thread of control
    op,                         \* entry point that was called
    target,                     \* what file_location designates
    env_ok,                     \* perform_ocr_processing: environment variables all set
    classifier_id,              \* perform_ocr_processing: classifier_id argument
    timeout_seconds,            \* poll_result parameter
    polling_interval_seconds,   \* poll_result parameter
    clock,                      \* time.time()
    start_time,                 \* poll_result local
    elapsed_time,               \* poll_result local
    request,                    \* the job-creation POST that was sent, if any
    post_answer,                \* what the service answered to the latest job-creation POST
    response,                   \* the Response the submitter returned to its caller
    queries,                    \* number of status GETs issued by the current poll_result
    sleeps,                     \* number of time.sleep calls of the current poll_result
    slept,                      \* seconds requested from time.sleep by the current poll_result
    nonterminal,                \* number of answers of the service that carried a non-terminal status
    last,                       \* poll_result local `response`: answer to the latest status GET
    payload,                    \* value poll_result returned to its caller
    skip_analyze,               \* generate_knowledge_base_on_blob argument
    prefix,                     \* storage_container_path_prefix
    walk,                       \* os.walk(reference_docs_folder): the folder tree on disk
    items,                      \* analyze_list / upload_list
    idx,                        \* position of the for loop in items
    resources,                  \* generate_knowledge_base_on_blob local
    submitted,                  \* positions in items for which a job-creation POST was sent
    uploads,                    \* blobs uploaded so far, in order
    result,                     \* value returned to the caller of the entry point
    error,                      \* exception that left the entry point
    logged,                     \* payload of the latest logger.error("Request failed. Reason: ...")
    http_req,                   \* the HttpRequest an HTTP handler was called with
    blobs,                      \* clean_up: the containers that hold the blob's content
    calls,                      \* storage and service calls an HTTP handler has made, in order
    peer                        \* steps made by another coroutine of the same event loop

pollVars == <<timeout_seconds, polling_interval_seconds, clock, start_time, elapsed_time,
              queries, sleeps, slept, nonterminal, last, logged>>
callVars == <<op, env_ok, classifier_id, http_req, blobs, calls, peer>>
kbVars == <<skip_analyze, prefix, walk, items, idx, resources>>
vars == <<pc, callVars, target, pollVars, kbVars, submitted, request, post_answer, response,
          payload, uploads, result, error>>

----------------------------------------------------------------------------
(* Bounds of the model *)

MaxPeerSteps == 2       \* steps of the other coroutine that are followed
MaxTimeout  == 4        \* largest timeout_seconds a library caller passes
MaxInterval == 2        \* largest polling_interval_seconds a library caller passes
MaxLatency  == 2        \* longest time one HTTP request takes
MaxLag      == 1        \* longest wait before the loop reads the clock

(* Program constants *)

POLL_TIMEOUT_SECONDS     == 120
DEFAULT_POLLING_INTERVAL == 2
OCR_TIMEOUT_SECONDS      == 920
OCR_POLLING_INTERVAL     == 25

PREBUILT_DOCUMENT_ANALYZER_ID == "prebuilt-documentAnalyzer"

----------------------------------------------------------------------------
(* Values *)

NoRequest  == [kind |-> "none"]
NoResponse == [kind |-> "none"]
NoPayload  == [kind |-> "none"]
NoResult   == [kind |-> "none"]
NoError    == [type |-> "none", payload |-> NoPayload]

Absent == "<absent>"                       \* a header or JSON key that is not there
NoJson == "<no json>"                      \* a response body that is not JSON

(* status strings the service may put in the operation payload *)
Statuses == {"succeeded", "Succeeded", "failed", "FAILED", "running", "NotStarted", "bogus"}
SucceededSpellings == {"succeeded", "Succeeded"}
FailedSpellings    == {"failed", "FAILED"}
NonTerminalStatuses == Statuses \ (SucceededSpellings \cup FailedSpellings)

(* str.lower() on the status strings and the file extensions of the model *)
Lower_Identity(s) == s
Lower(s) ==
    CASE s = "Succeeded"  -> "succeeded"
      [] s = "FAILED"     -> "failed"
      [] s = "NotStarted" -> "notstarted"
      [] s = ".PDF"       -> ".pdf"
      [] s = ".PNG"       -> ".png"
      [] s = ".EXE"       -> ".exe"
      [] OTHER            -> s

(* what file_location designates *)
Targets == {"file", "dir", "special", "https_url", "http_url", "nothing"}
Exists(t) == t \in {"file", "dir", "special"}
IsDir(t)  == t = "dir"
IsFile(t) == t = "file"
IsUrlLike_Anything(t) == TRUE
IsUrlLike(t) == t \in {"https_url", "http_url"}

(* values of the operation-location header of a submission response *)
HeaderValues == {Absent, "", "https://svc/op/1"}

(* HTTP status codes the service answers with *)
PostCodes == {202, 300, 404, 500}
GetCodes  == {200, 300, 404, 500}

(* response.headers.get(name, default) *)
HeaderGet(h, default) == IF h = Absent THEN default ELSE h

(* response.raise_for_status(): raises for 4xx and 5xx *)
RaiseForStatus_Never(code) == FALSE
RaiseForStatus(code) == code >= 400

(* `not operation_location` *)
MissingHandle_OnlyAbsent(loc) == loc = Absent
MissingHandle(loc) == loc = ""

(* `elapsed_time > timeout_seconds` *)
DeadlineExceeded_OneLate(elapsed, timeout) == elapsed > timeout + 1
DeadlineExceeded(elapsed, timeout) == elapsed > timeout

(* argument of time.sleep *)
SleepDuration_Double(interval) == 2 * interval
SleepDuration(interval) == interval

(* exceptions *)
Raise(type, carried) == [type |-> type, payload |-> carried]

(* raise RuntimeError("Request failed.") *)
FailedError(body) == Raise("RuntimeError", NoPayload)

(* self._logger.error(f"Request failed. Reason: {response.json()}") *)
LogFailure_Nothing(body) == NoPayload
LogFailure(body) == body

----------------------------------------------------------------------------
(* The remote service and the transport *)

(* The call sites with a fixed poll policy (120 s / 2 s and 920 s / 25 s) are explored  *)
(* with requests that either answer at once or take the whole budget, and without       *)
(* scheduling delay; a library caller's small policies get every delay up to the bounds *)
FixedPolicy(o) == o \in {"prebuilt", "ocr", "kb"}
Latencies == IF FixedPolicy(op) THEN {0, timeout_seconds} ELSE 0 .. MaxLatency
Lags      == IF FixedPolicy(op) THEN {0} ELSE 0 .. MaxLag

(* answers to the job-creation POST *)
PostOutcomes ==
    {[kind |-> "http", code |-> c, operation_location |-> h] :
        c \in PostCodes, h \in HeaderValues}
    \cup {[kind |-> "connection_error", code |-> 0, operation_location |-> Absent]}

(* answers to a status GET: the status field of the body, Absent for a JSON body    *)
(* without one, NoJson for a body that is not JSON (as the 4xx and 5xx answers are) *)
GetOutcomes ==
    {[kind |-> "http", code |-> 200, status |-> s] : s \in Statuses \cup {Absent, NoJson}}
    \cup {[kind |-> "http", code |-> 300, status |-> s] : s \in {"running", "failed", NoJson}}
    \cup {[kind |-> "http", code |-> c, status |-> NoJson] : c \in {c \in GetCodes : c >= 400}}
    \cup {[kind |-> "connection_error", code |-> 0, status |-> NoJson]}

----------------------------------------------------------------------------
(* File names and the folder tree *)

(* A file name is the sequence of its stem and its dotted extensions:          *)
(* "a.pdf.result.json" is <<"a", ".pdf", ".result", ".json">>.  A path and a   *)
(* blob name are the sequences of their parts.                                 *)

OCR_RESULT_FILE_SUFFIX == <<".result", ".json">>
KNOWLEDGE_SOURCE_LIST_FILE_NAME == <<"sources", ".jsonl">>

SUPPORTED_FILE_TYPES_DOCUMENT ==
    {".pdf", ".tiff", ".jpg", ".jpeg", ".png", ".bmp", ".heif"}

SUPPORTED_FILE_TYPES_DOCUMENT_TXT ==
    SUPPORTED_FILE_TYPES_DOCUMENT
        \cup {".docx", ".xlsx", ".pptx", ".txt", ".html", ".md", ".eml", ".msg", ".xml"}

(* os.path.splitext(filename)[1]: the last dotted part, none for a bare stem *)
SplitExt(filename) == IF Len(filename) > 1 THEN filename[Len(filename)] ELSE ""

is_supported_doc_type_by_file_ext(file_ext, is_document) ==
    Lower(file_ext) \in (IF is_document THEN SUPPORTED_FILE_TYPES_DOCUMENT
                                        ELSE SUPPORTED_FILE_TYPES_DOCUMENT_TXT)

(* os.path.join(dirpath, filename) *)
PathJoin(dirpath, filename) == dirpath \o <<"/">> \o filename

(* str.endswith *)
EndsWith(name, suffix) ==
    /\ Len(name) >= Len(suffix)
    /\ SubSeq(name, Len(name) - Len(suffix) + 1, Len(name)) = suffix

(* str.replace(suffix, ""): every occurrence of the suffix is removed *)
RECURSIVE RemoveAll(_, _)
RemoveAll(name, suffix) ==
    IF Len(name) < Len(suffix) THEN name
    ELSE IF SubSeq(name, 1, Len(suffix)) = suffix
         THEN RemoveAll(SubSeq(name, Len(suffix) + 1, Len(name)), suffix)
         ELSE <<Head(name)>> \o RemoveAll(Tail(name), suffix)

(* the (dirpath, dirnames, filenames) triples of os.walk, one record per file, in order *)
RECURSIVE WalkEntries(_)
WalkEntries(w) ==
    IF w = <<>> THEN <<>>
    ELSE [k \in 1 .. Len(w[1].filenames) |->
             [dirpath |-> w[1].dirpath, dirnames |-> w[1].dirnames,
              filenames |-> w[1].filenames, filename |-> w[1].filenames[k]]]
         \o WalkEntries(Tail(w))

Range(q) == {q[k] : k \in DOMAIN q}

(* os.path.exists(os.path.join(dirpath, name)) *)
ExistsIn(e, name) == name \in Range(e.filenames) \cup Range(e.dirnames)

Named(filename) == [kind |-> "name", name |-> filename]

(* _get_analyze_list *)
RECURSIVE AnalyzeListFrom_Skip(_, _)
AnalyzeListFrom_Skip(entries, analyze_list) ==
    IF entries = <<>> THEN [ok |-> TRUE, list |-> analyze_list]
    ELSE LET e == Head(entries)
             filename == e.filename
         IN AnalyzeListFrom_Skip(Tail(entries),
                IF is_supported_doc_type_by_file_ext(SplitExt(filename), TRUE)
                THEN Append(analyze_list,
                            [filename |-> filename,
                             file_path |-> PathJoin(e.dirpath, filename),
                             result_file_name |-> filename \o OCR_RESULT_FILE_SUFFIX,
                             result_file_path |-> <<>>])
                ELSE analyze_list)
RECURSIVE AnalyzeListFrom(_, _)
AnalyzeListFrom(entries, analyze_list) ==
    IF entries = <<>> THEN [ok |-> TRUE, list |-> analyze_list]
    ELSE LET e == Head(entries)
             filename == e.filename
         IN IF is_supported_doc_type_by_file_ext(SplitExt(filename), TRUE)
            THEN AnalyzeListFrom(Tail(entries),
                    Append(analyze_list,
                           [filename |-> filename,
                            file_path |-> PathJoin(e.dirpath, filename),
                            result_file_name |-> filename \o OCR_RESULT_FILE_SUFFIX,
                            result_file_path |-> <<>>]))
            ELSE [ok |-> FALSE, error |-> [type |-> "ValueError", payload |-> Named(filename)]]

get_analyze_list(w) == AnalyzeListFrom(WalkEntries(w), <<>>)

(* _get_upload_only_list *)
RECURSIVE UploadOnlyListFrom_NoExistsCheck(_, _)
UploadOnlyListFrom_NoExistsCheck(entries, upload_only_list) ==
    IF entries = <<>> THEN [ok |-> TRUE, list |-> upload_only_list]
    ELSE LET e == Head(entries)
             filename == e.filename
             result_file_name == filename \o OCR_RESULT_FILE_SUFFIX
         IN IF is_supported_doc_type_by_file_ext(SplitExt(filename), TRUE)
            THEN UploadOnlyListFrom_NoExistsCheck(Tail(entries),
                     Append(upload_only_list,
                            [filename |-> filename,
                             file_path |-> PathJoin(e.dirpath, filename),
                             result_file_name |-> result_file_name,
                             result_file_path |-> PathJoin(e.dirpath, result_file_name)]))
            ELSE IF EndsWith(filename, OCR_RESULT_FILE_SUFFIX)
            THEN UploadOnlyListFrom_NoExistsCheck(Tail(entries), upload_only_list)
            ELSE [ok |-> FALSE, error |-> [type |-> "ValueError", payload |-> Named(filename)]]
RECURSIVE UploadOnlyListFrom(_, _)
UploadOnlyListFrom(entries, upload_only_list) ==
    IF entries = <<>> THEN [ok |-> TRUE, list |-> upload_only_list]
    ELSE LET e == Head(entries)
             filename == e.filename
             result_file_name == filename \o OCR_RESULT_FILE_SUFFIX
             original_filename == RemoveAll(filename, OCR_RESULT_FILE_SUFFIX)
         IN IF is_supported_doc_type_by_file_ext(SplitExt(filename), TRUE)
            THEN IF ~ExistsIn(e, result_file_name)
                 THEN [ok |-> FALSE,
                       error |-> [type |-> "FileNotFoundError", payload |-> Named(result_file_name)]]
                 ELSE UploadOnlyListFrom(Tail(entries),
                         Append(upload_only_list,
                                [filename |-> filename,
                                 file_path |-> PathJoin(e.dirpath, filename),
                                 result_file_name |-> result_file_name,
                                 result_file_path |-> PathJoin(e.dirpath, result_file_name)]))
            ELSE IF EndsWith(filename, OCR_RESULT_FILE_SUFFIX)
            THEN IF original_filename \in Range(e.filenames)
                 THEN IF is_supported_doc_type_by_file_ext(SplitExt(original_filename), TRUE)
                      THEN UploadOnlyListFrom(Tail(entries), upload_only_list)
                      ELSE [ok |-> FALSE,
                            error |-> [type |-> "ValueError", payload |-> Named(original_filename)]]
                 ELSE [ok |-> FALSE, error |-> [type |-> "ValueError", payload |-> Named(filename)]]
            ELSE [ok |-> FALSE, error |-> [type |-> "ValueError", payload |-> Named(filename)]]

get_upload_only_list(w) == UploadOnlyListFrom(WalkEntries(w), <<>>)

(* `if not prefix.endswith("/"): prefix += "/"` *)
NormalisePrefix(p) == IF p # <<>> /\ p[Len(p)] = "/" THEN p ELSE Append(p, "/")

(* str.split(sep) on a text given by its pieces; the empty text has no part *)
RECURSIVE Split(_, _)
Split(text, sep) ==
    IF text = <<>> THEN <<>>
    ELSE LET at == {k \in DOMAIN text : text[k] = sep} IN
         IF at = {} THEN <<text>>
         ELSE LET first == CHOOSE k \in at : \A j \in at : k <= j IN
              <<SubSeq(text, 1, first - 1)>> \o
                  (IF first = Len(text) THEN <<<<>>>> ELSE Split(SubSeq(text, first + 1, Len(text)), sep))

(* str.join: the parts with sep between them *)
Join_LastPart(parts, sep) == IF parts = <<>> THEN <<>> ELSE parts[Len(parts)]
RECURSIVE Join(_, _)
Join(parts, sep) ==
    IF parts = <<>> THEN <<>>
    ELSE IF Len(parts) = 1 THEN parts[1]
    ELSE parts[1] \o <<sep>> \o Join(Tail(parts), sep)

(* file_path.rglob("*"): every directory and file below the root *)
RECURSIVE RGlob(_)
RGlob(w) ==
    IF w = <<>> THEN <<>>
    ELSE [k \in 1 .. Len(w[1].dirnames) |->
             [dirpath |-> w[1].dirpath, name |-> w[1].dirnames[k], is_file |-> FALSE]]
         \o [k \in 1 .. Len(w[1].filenames) |->
             [dirpath |-> w[1].dirpath, name |-> w[1].filenames[k], is_file |-> TRUE]]
         \o RGlob(Tail(w))

(* f.relative_to(file_path).parts *)
RelativeParts(f, root) ==
    LET segments == Split(f.dirpath, "/") IN
    SubSeq(segments, Len(Split(root, "/")) + 1, Len(segments)) \o <<f.name>>

(* is_supported_doc_type_by_file_path: a regular file with a supported suffix *)
is_supported_doc_type_by_file_path_AnyFile(f, is_document) == f.is_file
is_supported_doc_type_by_file_path(f, is_document) ==
    IF ~f.is_file THEN FALSE
    ELSE is_supported_doc_type_by_file_ext(Lower(SplitExt(f.name)), is_document)

(* the "inputs" list begin_analyze builds for a directory *)
Inputs(w) ==
    LET chosen == SelectSeq(RGlob(w), LAMBDA f : is_supported_doc_type_by_file_path(f, TRUE)) IN
    [k \in DOMAIN chosen |->
        [name |-> Join(RelativeParts(chosen[k], w[1].dirpath), "_"),
         data |-> <<"base64", PathJoin(chosen[k].dirpath, chosen[k].name)>>]]

----------------------------------------------------------------------------
(* Request Builder *)

(* begin_analyze: the body and content type for file_location, or the error; *)
(* tree is what os.walk finds below file_location when it is a directory     *)
AnalyzeRequest(t, tree) ==
    IF Exists(t)
    THEN IF IsDir(t)
         THEN [ok |-> TRUE, content_type |-> "application/json",
               body |-> [inputs |-> Inputs(tree)], sent_as |-> "json"]
         ELSE IF IsFile(t)
         THEN [ok |-> TRUE, content_type |-> "application/octet-stream",
               body |-> [bytes |-> t], sent_as |-> "data"]
         ELSE [ok |-> FALSE, error |-> "ValueError"]
    ELSE IF IsUrlLike(t)
         THEN [ok |-> TRUE, content_type |-> "application/json",
               body |-> [url |-> t], sent_as |-> "json"]
         ELSE [ok |-> FALSE, error |-> "ValueError"]

(* begin_classify: open() of a directory raises IsADirectoryError *)
ClassifyRequest_DirectoryRejected(t) ==
    IF Exists(t)
    THEN IF IsDir(t)
         THEN [ok |-> FALSE, error |-> "ValueError"]
         ELSE [ok |-> TRUE, content_type |-> "application/octet-stream",
               body |-> [bytes |-> t], sent_as |-> "data"]
    ELSE IF IsUrlLike(t)
         THEN [ok |-> TRUE, content_type |-> "application/json",
               body |-> [url |-> t], sent_as |-> "json"]
         ELSE [ok |-> FALSE, error |-> "ValueError"]
ClassifyRequest(t) ==
    IF Exists(t)
    THEN IF IsDir(t)
         THEN [ok |-> FALSE, error |-> "IsADirectoryError"]
         ELSE [ok |-> TRUE, content_type |-> "application/octet-stream",
               body |-> [bytes |-> t], sent_as |-> "data"]
    ELSE IF IsUrlLike(t)
         THEN [ok |-> TRUE, content_type |-> "application/json",
               body |-> [url |-> t], sent_as |-> "json"]
         ELSE [ok |-> FALSE, error |-> "ValueError"]

----------------------------------------------------------------------------
(* Control transfer *)

(* where an exception takes the caller: the except clauses around the submit+poll *)
(* calls re-raise (`raise e`, `raise`), nothing else catches                       *)
PropagateTo_BreakToManifest(o) == IF o = "kb" THEN "kb_manifest" ELSE "raised"
PropagateTo(o) == "raised"

(* an exception leaves the entry point *)
Raised(e) ==
    /\ pc' = PropagateTo(op)
    /\ error' = e

(* where poll_result's caller continues with the returned payload *)
AfterPoll_NextFile(value) ==
    /\ payload' = value
    /\ IF op \in {"ocr", "kb"}
       THEN /\ pc' = (IF op = "ocr" THEN "ocr_upload" ELSE "kb_for")
            /\ UNCHANGED result
       ELSE /\ pc' = "returned"
            /\ result' = value
AfterPoll(value) ==
    /\ payload' = value
    /\ IF op \in {"ocr", "kb"}
       THEN /\ pc' = (IF op = "ocr" THEN "ocr_upload" ELSE "kb_upload_json")
            /\ UNCHANGED result
       ELSE /\ pc' = "returned"
            /\ result' = value

----------------------------------------------------------------------------
(* Operation Submitter *)

(* self._headers, from _get_headers: the credential and the user agent *)
ClientHeaders_WithContentType ==
    ("Ocp-Apim-Subscription-Key" :> "key") @@ ("x-ms-useragent" :> "ua")
        @@ ("Content-Type" :> "application/json")
ClientHeaders == ("Ocp-Apim-Subscription-Key" :> "key") @@ ("x-ms-useragent" :> "ua")

(* headers.update(other): the keys of other replace those of headers *)
Update(headers, other) == other @@ headers

(* the headers of the submission: {"Content-Type": ...} updated with self._headers *)
HeadersOf(req) == Update("Content-Type" :> req.content_type, ClientHeaders)

(* requests.post(...); response.raise_for_status(); return response *)
Send(kind, analyzer, req) ==
    /\ request' = [kind |-> kind, id |-> analyzer, content_type |-> HeadersOf(req)["Content-Type"],
                   body |-> req.body, sent_as |-> req.sent_as, target |-> target]
    /\ submitted' = Append(submitted, idx)
    /\ \E lat \in Latencies, out \in PostOutcomes :
        /\ clock' = clock + lat
        /\ post_answer' = out
        /\ IF out.kind = "connection_error"
           THEN /\ Raised(Raise("ConnectionError", NoPayload))
                /\ response' = NoResponse
           ELSE IF RaiseForStatus(out.code)
           THEN /\ Raised(Raise("HTTPError", out))
                /\ response' = NoResponse
           ELSE /\ response' = out
                /\ pc' = "poll_result"
                /\ UNCHANGED error

AnalyzerOf(o) == IF o = "analyze" THEN "my-analyzer" ELSE PREBUILT_DOCUMENT_ANALYZER_ID

begin_analyze ==
    /\ pc = "begin_analyze"
    /\ LET req == AnalyzeRequest(target, walk) IN
       IF req.ok
       THEN Send("analyze", AnalyzerOf(op), req)
       ELSE /\ Raised(Raise(req.error, NoPayload))
            /\ UNCHANGED <<request, post_answer, response, clock, submitted>>
    /\ UNCHANGED <<callVars, target, kbVars, timeout_seconds, polling_interval_seconds, start_time, elapsed_time,
                   queries, sleeps, slept, nonterminal, last, logged, payload, uploads, result>>

begin_classify ==
    /\ pc = "begin_classify"
    /\ LET req == ClassifyRequest(target) IN
       IF req.ok
       THEN Send("classify", classifier_id, req)
       ELSE /\ Raised(Raise(req.error, NoPayload))
            /\ UNCHANGED <<request, post_answer, response, clock, submitted>>
    /\ UNCHANGED <<callVars, target, kbVars, timeout_seconds, polling_interval_seconds, start_time, elapsed_time,
                   queries, sleeps, slept, nonterminal, last, logged, payload, uploads, result>>

----------------------------------------------------------------------------
(* Poller *)

(* poll_result up to `start_time = time.time()` *)
poll_result ==
    /\ pc = "poll_result"
    /\ LET operation_location == HeaderGet(response.operation_location, "") IN
       IF MissingHandle(operation_location)
       THEN /\ Raised(Raise("ValueError", NoPayload))
            /\ UNCHANGED <<start_time, queries, sleeps, slept, nonterminal, last>>
       ELSE /\ start_time' = clock
            /\ queries' = 0
            /\ sleeps' = 0
            /\ slept' = 0
            /\ nonterminal' = 0
            /\ last' = NoResponse
            /\ pc' = "poll_loop"
            /\ UNCHANGED error
    /\ UNCHANGED <<callVars, target, kbVars, submitted, timeout_seconds, polling_interval_seconds, clock, elapsed_time,
                   logged, request, post_answer, response, payload, uploads, result>>

(* top of the loop: read the clock, check the deadline *)
poll_check_deadline ==
    /\ pc = "poll_loop"
    /\ \E lag \in Lags :
        /\ clock' = clock + lag
        /\ elapsed_time' = clock' - start_time
        /\ IF DeadlineExceeded(elapsed_time', timeout_seconds)
           THEN Raised(Raise("TimeoutError", NoPayload))
           ELSE /\ pc' = "poll_get"
                /\ UNCHANGED error
    /\ UNCHANGED <<callVars, target, kbVars, submitted, timeout_seconds, polling_interval_seconds, start_time,
                   queries, sleeps, slept, nonterminal, last, logged,
                   request, post_answer, response, payload, uploads, result>>

(* what the loop body does with the answer to its GET *)
Disposition_RetryTransport(out) ==
    IF out.kind = "connection_error" \/ RaiseForStatus(out.code) THEN "sleep"
    ELSE IF out.status = NoJson THEN "raise_json"
    ELSE IF out.status = Absent THEN "raise_attribute"
    ELSE IF Lower(out.status) = "succeeded" THEN "return"
    ELSE IF Lower(out.status) = "failed" THEN "raise_failed"
    ELSE "sleep"
Disposition_FailedRetried(out) ==
    IF out.kind = "connection_error" THEN "raise_connection"
    ELSE IF RaiseForStatus(out.code) THEN "raise_http"
    ELSE IF out.status = NoJson THEN "raise_json"
    ELSE IF out.status = Absent THEN "raise_attribute"
    ELSE IF Lower(out.status) = "succeeded" THEN "return"
    ELSE "sleep"
Disposition_AbsentReturns(out) ==
    IF out.kind = "connection_error" THEN "raise_connection"
    ELSE IF RaiseForStatus(out.code) THEN "raise_http"
    ELSE IF out.status = NoJson THEN "raise_json"
    ELSE IF out.status = Absent THEN "return"
    ELSE IF Lower(out.status) = "succeeded" THEN "return"
    ELSE IF Lower(out.status) = "failed" THEN "raise_failed"
    ELSE "sleep"
Disposition(out) ==
    IF out.kind = "connection_error" THEN "raise_connection"
    ELSE IF RaiseForStatus(out.code) THEN "raise_http"
    ELSE IF out.status = NoJson THEN "raise_json"
    ELSE IF out.status = Absent THEN "raise_attribute"
    ELSE IF Lower(out.status) = "succeeded" THEN "return"
    ELSE IF Lower(out.status) = "failed" THEN "raise_failed"
    ELSE "sleep"

(* requests.get(operation_location); raise_for_status(); the status branches *)
poll_get ==
    /\ pc = "poll_get"
    /\ queries' = queries + 1
    /\ \E lat \in Latencies, out \in GetOutcomes :
        LET answer == [kind |-> out.kind, code |-> out.code, status |-> out.status,
                       seq |-> queries + 1, took |-> lat]
            d == Disposition(out)
        IN
        /\ clock' = clock + lat
        /\ last' = answer
        /\ nonterminal' = IF out.kind = "http" /\ out.code < 400 /\ out.status \in NonTerminalStatuses
                          THEN nonterminal + 1 ELSE nonterminal
        /\ CASE d = "raise_connection" ->
                  /\ Raised(Raise("ConnectionError", NoPayload))
                  /\ UNCHANGED <<logged, payload, result, sleeps, slept>>
             [] d = "raise_http" ->
                  /\ Raised(Raise("HTTPError", answer))
                  /\ UNCHANGED <<logged, payload, result, sleeps, slept>>
             [] d = "raise_json" ->
                  /\ Raised(Raise("JSONDecodeError", NoPayload))
                  /\ UNCHANGED <<logged, payload, result, sleeps, slept>>
             [] d = "raise_attribute" ->
                  /\ Raised(Raise("AttributeError", NoPayload))
                  /\ UNCHANGED <<logged, payload, result, sleeps, slept>>
             [] d = "return" ->
                  /\ AfterPoll(answer)
                  /\ UNCHANGED <<logged, error, sleeps, slept>>
             [] d = "raise_failed" ->
                  /\ logged' = LogFailure(answer)
                  /\ Raised(FailedError(answer))
                  /\ UNCHANGED <<payload, result, sleeps, slept>>
             [] OTHER ->
                  /\ pc' = "poll_sleep"
                  /\ UNCHANGED <<logged, payload, result, error, sleeps, slept>>
    /\ UNCHANGED <<callVars, target, kbVars, submitted, timeout_seconds, polling_interval_seconds, start_time, elapsed_time,
                   request, post_answer, response, uploads>>

(* time.sleep(polling_interval_seconds) *)
poll_sleep ==
    /\ pc = "poll_sleep"
    /\ sleeps' = sleeps + 1
    /\ slept' = slept + SleepDuration(polling_interval_seconds)
    /\ clock' = clock + SleepDuration(polling_interval_seconds)
    /\ pc' = "poll_loop"
    /\ UNCHANGED <<callVars, target, kbVars, submitted, timeout_seconds, polling_interval_seconds, start_time, elapsed_time,
                   queries, nonterminal, last, logged, request, post_answer, response, payload, uploads,
                   result, error>>

----------------------------------------------------------------------------
(* perform_ocr_processing *)

(* environment validation, client construction, the classifier_id test *)
perform_ocr_processing ==
    /\ pc = "perform_ocr_processing"
    /\ IF ~env_ok
       THEN Raised(Raise("ValueError", NoPayload))
       ELSE IF classifier_id = ""
       THEN Raised(Raise("ValueError", NoPayload))
       ELSE /\ pc' = "begin_classify"
            /\ UNCHANGED error
    /\ UNCHANGED <<callVars, target, kbVars, submitted, pollVars, request, post_answer, response, payload, uploads, result>>

(* upload of the result JSON to the enhanced-results container, and the return value *)
ocr_upload ==
    /\ pc = "ocr_upload"
    /\ \E ok \in BOOLEAN :
        IF ok
        THEN /\ uploads' = Append(uploads, [container |-> "enhanced-results",
                                            name |-> <<"ocr_result_blob_name">>,
                                            content |-> payload])
             /\ result' = [kind |-> "dict", container_name |-> "enhanced-results"]
             /\ pc' = "returned"
             /\ UNCHANGED error
        ELSE /\ Raised(Raise("AzureError", NoPayload))
             /\ UNCHANGED <<uploads, result>>
    /\ UNCHANGED <<callVars, target, kbVars, submitted, pollVars, request, post_answer, response, payload>>

----------------------------------------------------------------------------
(* Submit + poll: library callers (begin_analyze / begin_classify followed by  *)
(* poll_result), get_prebuilt_document_analyze_result, perform_ocr_processing  *)

PollOps == {"analyze", "classify", "prebuilt", "ocr"}

EntryOf(o) ==
    CASE o = "classify" -> "begin_classify"
      [] o = "ocr"      -> "perform_ocr_processing"
      [] OTHER          -> "begin_analyze"

(* the poll policy each call site passes to poll_result *)
TimeoutOf(o, t) ==
    CASE o = "prebuilt" -> POLL_TIMEOUT_SECONDS
      [] o = "kb"       -> POLL_TIMEOUT_SECONDS
      [] o = "ocr"      -> OCR_TIMEOUT_SECONDS
      [] OTHER          -> t

IntervalOf(o, i) ==
    CASE o = "prebuilt" -> DEFAULT_POLLING_INTERVAL
      [] o = "kb"       -> DEFAULT_POLLING_INTERVAL
      [] o = "ocr"      -> OCR_POLLING_INTERVAL
      [] OTHER          -> i

InitCommon ==
    /\ calls = <<>>
    /\ peer = 0
    /\ submitted = <<>>
    /\ clock = 0
    /\ start_time = 0
    /\ elapsed_time = 0
    /\ request = NoRequest
    /\ post_answer = NoResponse
    /\ response = NoResponse
    /\ queries = 0
    /\ sleeps = 0
    /\ slept = 0
    /\ nonterminal = 0
    /\ last = NoResponse
    /\ payload = NoPayload
    /\ uploads = <<>>
    /\ result = NoResult
    /\ error = NoError
    /\ logged = NoPayload

InitPoll ==
    /\ op \in PollOps
    /\ target \in Targets
    /\ env_ok \in (IF op = "ocr" THEN BOOLEAN ELSE {TRUE})
    /\ classifier_id \in (IF op = "ocr" THEN {"", "cls-1"} ELSE {"cls-1"})
    /\ \E t \in 0 .. MaxTimeout, i \in 1 .. MaxInterval :
        /\ timeout_seconds = TimeoutOf(op, t)
        /\ polling_interval_seconds = IntervalOf(op, i)
    /\ pc = EntryOf(op)
    /\ skip_analyze = FALSE
    /\ prefix = <<>>
    /\ walk = <<>>
    /\ items = <<>>
    /\ idx = 0
    /\ resources = <<>>
    /\ http_req = NoRequest
    /\ blobs = {}
    /\ InitCommon

NextPoll ==
    \/ begin_analyze
    \/ begin_classify
    \/ poll_result
    \/ poll_check_deadline
    \/ poll_get
    \/ poll_sleep
    \/ perform_ocr_processing
    \/ ocr_upload

SpecPoll == InitPoll /\ [][NextPoll]_vars

----------------------------------------------------------------------------
(* Properties of the poller and the submitter *)

(* the submitter handed back a response that carries an operation handle *)
HandlePresent == response.kind = "http" /\ response.operation_location \notin {Absent, ""}

(* poll_result went past its header check and has since returned or raised *)
PollEnded == HandlePresent /\ pc \in {"returned", "raised", "ocr_upload"}

PollReturned == payload # NoPayload

LastTook == IF last.kind = "none" THEN 0 ELSE last.took

TransportFailure(a) == a.kind = "connection_error" \/ (a.kind = "http" /\ a.code >= 400)

(* C1: the deadline check precedes every status query: a query is only issued while   *)
(* the time since start_time is within timeout_seconds, and when the first reading of *)
(* the clock already exceeds the timeout, TimeoutError is raised with no query issued *)
C1_DeadlineBeforeQuery ==
    [][ /\ (queries' = queries + 1) => (clock - start_time <= timeout_seconds)
        /\ (pc = "poll_loop" /\ queries = 0 /\ clock' - start_time > timeout_seconds)
              => (pc' = "raised" /\ error'.type = "TimeoutError" /\ queries' = 0) ]_vars

C1_Witness == error.type = "TimeoutError" /\ queries = 0 /\ HandlePresent

(* C2 as stated: poll_result ends within timeout_seconds + polling_interval_seconds *)
C2_Original ==
    PollEnded => clock - start_time <= timeout_seconds + polling_interval_seconds

(* C2 amended: poll_result ends within timeout_seconds + polling_interval_seconds plus *)
(* the time its last status query took and the delay before the last clock reading    *)
C2_BoundWithLastQuery ==
    PollEnded =>
        clock - start_time <= timeout_seconds + polling_interval_seconds + LastTook + MaxLag

C2_Witness ==
    /\ PollEnded
    /\ error.type = "TimeoutError"
    /\ clock - start_time > timeout_seconds + polling_interval_seconds

(* C3 as stated: whenever k * polling_interval_seconds is within the timeout, the      *)
(* (k+1)-th query is issued after k non-terminal answers, so a timeout can only follow *)
(* k answers with k * polling_interval_seconds beyond the timeout                      *)
C3_Original ==
    (PollEnded /\ error.type = "TimeoutError")
        => nonterminal * polling_interval_seconds > timeout_seconds

(* C3 amended: when poll_result returns after k non-terminal answers followed by       *)
(* 'succeeded', it issued exactly k+1 queries, slept k times for k intervals in total, *)
(* and returned the payload of the (k+1)-th query; it returns only if every deadline   *)
(* check passed, and otherwise a timeout follows an elapsed reading beyond the timeout *)
C3_QueriesSleepsPayload ==
    /\ PollReturned =>
          /\ queries = nonterminal + 1
          /\ sleeps = nonterminal
          /\ slept = nonterminal * polling_interval_seconds
          /\ payload = last
          /\ payload.seq = nonterminal + 1
          /\ payload.status \in SucceededSpellings
          /\ elapsed_time <= timeout_seconds
    /\ (PollEnded /\ error.type = "TimeoutError") => elapsed_time > timeout_seconds

C3_Witness == PollReturned /\ nonterminal = 2 /\ queries = 3 /\ slept = 2 * polling_interval_seconds

(* C4: a first status query answered 'failed' raises the operation-failed error at     *)
(* once: one query, no sleep, nothing returned                                         *)
C4_FailedOnFirstQuery ==
    (queries = 1 /\ last.kind = "http" /\ last.code < 400 /\ last.status \in FailedSpellings)
        => /\ pc = "raised"
           /\ error.type = "RuntimeError"
           /\ sleeps = 0
           /\ slept = 0
           /\ payload = NoPayload
           /\ result = NoResult

C4_Witness == queries = 1 /\ last.kind = "http" /\ last.status = "failed" /\ pc = "raised"

(* C5 as stated: the error raised on 'failed' carries the failure payload of the query *)
C5_Original == error.type = "RuntimeError" => error.payload = last

(* C5 amended: the error raised on 'failed' is a RuntimeError that carries no payload; *)
(* the failure payload of that query is written to the error log before the raise      *)
C5_PayloadLoggedNotCarried ==
    error.type = "RuntimeError"
        => /\ error.payload = NoPayload
           /\ logged = last
           /\ last.status \in FailedSpellings

C5_Witness == error.type = "RuntimeError" /\ logged.kind = "http" /\ logged.status = "FAILED"

(* C6 as stated: a status query answered non-2xx ends poll_result: it was the last     *)
(* query and no sleep follows it                                                       *)
C6_Original ==
    (last.kind = "http" /\ last.code \notin 200 .. 299)
        => /\ pc = "raised"
           /\ queries = last.seq
           /\ sleeps = last.seq - 1

(* C6 amended: a status query that raises in requests.get or is answered 4xx or 5xx    *)
(* ends poll_result with that failure: it was the last query, and no sleep follows it  *)
C6_TransportErrorNotRetried ==
    (last.kind # "none" /\ TransportFailure(last))
        => /\ pc = "raised"
           /\ error.type \in {"HTTPError", "ConnectionError"}
           /\ queries = last.seq
           /\ sleeps = last.seq - 1
           /\ payload = NoPayload

C6_Witness == last.kind = "http" /\ last.code = 500 /\ queries = 2 /\ pc = "raised"

(* C7: a successful submission response without an operation-location header (absent  *)
(* or empty) makes submit+poll fail with ValueError and no status query is issued      *)
C7_MissingHandle ==
    (response.kind = "http" /\ response.operation_location \in {Absent, ""})
        => /\ queries = 0
           /\ last = NoResponse
           /\ pc \in {"poll_result", "raised"}
           /\ pc = "raised" => error.type = "ValueError"

C7_Witness ==
    /\ op = "prebuilt"
    /\ response.kind = "http" /\ response.code = 202 /\ response.operation_location = Absent
    /\ error.type = "ValueError"

(* C8 as stated: a job-creation request answered non-2xx is propagated: no response   *)
(* is handed back and no status query is ever issued                                   *)
C8_Original ==
    (post_answer.kind = "http" /\ post_answer.code \notin 200 .. 299)
        => /\ pc = "raised"
           /\ response = NoResponse
           /\ queries = 0

(* C8 amended: a job-creation request answered 4xx or 5xx is propagated as HTTPError:  *)
(* no response is handed back and no status query is ever issued                       *)
C8_SubmitFailurePropagates ==
    (post_answer.kind = "http" /\ post_answer.code >= 400)
        => /\ pc = "raised"
           /\ error.type = "HTTPError"
           /\ error.payload = post_answer
           /\ response = NoResponse
           /\ queries = 0
           /\ last = NoResponse
           /\ payload = NoPayload
           /\ result = NoResult

C8_Witness == op = "ocr" /\ post_answer.kind = "http" /\ post_answer.code = 500 /\ pc = "raised"

----------------------------------------------------------------------------
(* Result Aggregator: generate_knowledge_base_on_blob *)

KbContainer == "knowledge-base"

Blob(name, content) == [container |-> KbContainer, name |-> name, content |-> content]

(* the dict appended to resources for an item *)
ResourceRecord_FilePath(item) == [file |-> item.file_path, resultFile |-> item.result_file_name]
ResourceRecord(item) == [file |-> item.filename, resultFile |-> item.result_file_name]

(* the loop variable analyze_item / upload_item *)
Item == items[idx]

(* prefix normalisation and the list of the chosen mode *)
generate_knowledge_base_on_blob ==
    /\ pc = "generate_knowledge_base_on_blob"
    /\ prefix' = NormalisePrefix(prefix)
    /\ LET r == IF skip_analyze THEN get_upload_only_list(walk) ELSE get_analyze_list(walk) IN
       IF r.ok
       THEN /\ items' = r.list
            /\ idx' = 1
            /\ pc' = "kb_for"
            /\ UNCHANGED error
       ELSE /\ Raised(r.error)
            /\ UNCHANGED <<items, idx>>
    /\ UNCHANGED <<callVars, target, pollVars, skip_analyze, walk, resources, submitted,
                   request, post_answer, response, payload, uploads, result>>

(* head of the for loop over the list: the next item, or the manifest after the last. *)
(* In analyze mode the item goes to get_prebuilt_document_analyze_result, whose       *)
(* locals are fresh; the clock is re-based, poll_result only uses differences of it   *)
kb_for ==
    /\ pc = "kb_for"
    /\ IF idx > Len(items)
       THEN /\ pc' = "kb_manifest"
            /\ UNCHANGED <<target, pollVars, request, post_answer, response, payload>>
       ELSE IF skip_analyze
       THEN /\ pc' = "kb_upload_only_file"
            /\ UNCHANGED <<target, pollVars, request, post_answer, response, payload>>
       ELSE /\ pc' = "begin_analyze"
            /\ target' = "file"
            /\ clock' = 0
            /\ start_time' = 0
            /\ elapsed_time' = 0
            /\ queries' = 0
            /\ sleeps' = 0
            /\ slept' = 0
            /\ nonterminal' = 0
            /\ last' = NoResponse
            /\ request' = NoRequest
            /\ post_answer' = NoResponse
            /\ response' = NoResponse
            /\ payload' = NoPayload
            /\ UNCHANGED <<timeout_seconds, polling_interval_seconds, logged>>
    /\ UNCHANGED <<callVars, kbVars, submitted, uploads, result, error>>

(* analyze mode: _upload_json_to_blob(analyze_result, prefix + result_file_name) *)
kb_upload_json ==
    /\ pc = "kb_upload_json"
    /\ \E ok \in BOOLEAN :
        IF ok
        THEN /\ uploads' = Append(uploads, Blob(prefix \o Item.result_file_name,
                                               <<"analyze_result", Item.file_path>>))
             /\ pc' = "kb_upload_file"
             /\ UNCHANGED error
        ELSE /\ Raised(Raise("AzureError", NoPayload))
             /\ UNCHANGED uploads
    /\ UNCHANGED <<callVars, target, pollVars, kbVars, submitted, request, post_answer,
                   response, payload, result>>

(* analyze mode: _upload_file_to_blob(file_path, prefix + filename); resources.append *)
kb_upload_file ==
    /\ pc = "kb_upload_file"
    /\ \E ok \in BOOLEAN :
        IF ok
        THEN /\ uploads' = Append(uploads, Blob(prefix \o Item.filename,
                                               <<"file", Item.file_path>>))
             /\ resources' = Append(resources, ResourceRecord(Item))
             /\ idx' = idx + 1
             /\ pc' = "kb_for"
             /\ UNCHANGED error
        ELSE /\ Raised(Raise("AzureError", NoPayload))
             /\ UNCHANGED <<uploads, resources, idx>>
    /\ UNCHANGED <<callVars, target, pollVars, skip_analyze, prefix, walk, items, submitted,
                   request, post_answer, response, payload, result>>

(* upload-only mode: _upload_file_to_blob(file_path, prefix + filename) *)
kb_upload_only_file ==
    /\ pc = "kb_upload_only_file"
    /\ \E ok \in BOOLEAN :
        IF ok
        THEN /\ uploads' = Append(uploads, Blob(prefix \o Item.filename,
                                               <<"file", Item.file_path>>))
             /\ pc' = "kb_upload_only_result"
             /\ UNCHANGED error
        ELSE /\ Raised(Raise("AzureError", NoPayload))
             /\ UNCHANGED uploads
    /\ UNCHANGED <<callVars, target, pollVars, kbVars, submitted, request, post_answer,
                   response, payload, result>>

(* upload-only mode: _upload_file_to_blob(result_file_path, prefix + result_file_name); *)
(* resources.append                                                                     *)
kb_upload_only_result ==
    /\ pc = "kb_upload_only_result"
    /\ \E ok \in BOOLEAN :
        IF ok
        THEN /\ uploads' = Append(uploads, Blob(prefix \o Item.result_file_name,
                                               <<"file", Item.result_file_path>>))
             /\ resources' = Append(resources, ResourceRecord(Item))
             /\ idx' = idx + 1
             /\ pc' = "kb_for"
             /\ UNCHANGED error
        ELSE /\ Raised(Raise("AzureError", NoPayload))
             /\ UNCHANGED <<uploads, resources, idx>>
    /\ UNCHANGED <<callVars, target, pollVars, skip_analyze, prefix, walk, items, submitted,
                   request, post_answer, response, payload, result>>

(* json.dumps(record): the text of one manifest line, as its sequence of pieces; *)
(* the pieces of a file name never contain a quote, json.dumps escapes them      *)
JsonOpen  == "{\"file\": \""
JsonMid   == "\", \"resultFile\": \""
JsonClose == "\"}"
JsonDumps(record) == <<JsonOpen>> \o record.file \o <<JsonMid>> \o record.resultFile \o <<JsonClose>>

(* "\n".join(json.dumps(record) for record in data_list) *)
RECURSIVE JsonlString_NoSeparator(_)
JsonlString_NoSeparator(data_list) ==
    IF data_list = <<>> THEN <<>>
    ELSE JsonDumps(Head(data_list)) \o JsonlString_NoSeparator(Tail(data_list))
RECURSIVE JsonlString(_)
JsonlString(data_list) ==
    IF data_list = <<>> THEN <<>>
    ELSE IF Len(data_list) = 1 THEN JsonDumps(data_list[1])
    ELSE JsonDumps(Head(data_list)) \o <<"\n">> \o JsonlString(Tail(data_list))

(* upload_jsonl_to_blob(resources, prefix + "sources.jsonl") *)
kb_manifest ==
    /\ pc = "kb_manifest"
    /\ \E ok \in BOOLEAN :
        IF ok
        THEN /\ uploads' = Append(uploads, Blob(prefix \o KNOWLEDGE_SOURCE_LIST_FILE_NAME,
                                               JsonlString(resources)))
             /\ result' = [kind |-> "None"]
             /\ pc' = "returned"
             /\ UNCHANGED error
        ELSE /\ Raised(Raise("AzureError", NoPayload))
             /\ UNCHANGED <<uploads, result>>
    /\ UNCHANGED <<callVars, target, pollVars, kbVars, submitted, request, post_answer,
                   response, payload>>

----------------------------------------------------------------------------
(* The folders the knowledge-base runs are explored on *)

Dir(dirpath, dirnames, filenames) ==
    [dirpath |-> dirpath, dirnames |-> dirnames, filenames |-> filenames]

a_pdf == <<"a", ".pdf">>
b_pdf == <<"b", ".pdf">>
c_PNG == <<"c", ".PNG">>
b_exe == <<"b", ".exe">>
a_result_json_pdf == <<"a", ".result", ".json", ".pdf">>

Folders ==
    { <<Dir(<<"docs">>, <<>>, <<>>)>>,
      <<Dir(<<"docs">>, <<>>, <<a_pdf, b_pdf>>)>>,
      <<Dir(<<"docs">>, <<>>, <<a_pdf, b_pdf, c_PNG>>)>>,
      <<Dir(<<"docs">>, <<>>, <<a_pdf, b_exe>>)>>,
      <<Dir(<<"docs">>, <<<<"sub">>>>, <<a_pdf>>), Dir(<<"docs", "/", "sub">>, <<>>, <<a_pdf>>)>>,
      <<Dir(<<"docs">>, <<<<"sub">>>>, <<a_pdf>>), Dir(<<"docs", "/", "sub">>, <<>>, <<b_exe, b_pdf>>)>>,
      <<Dir(<<"docs">>, <<>>, <<a_pdf, a_pdf \o OCR_RESULT_FILE_SUFFIX,
                                b_pdf, b_pdf \o OCR_RESULT_FILE_SUFFIX>>)>>,
      <<Dir(<<"docs">>, <<>>, <<a_pdf, a_pdf \o OCR_RESULT_FILE_SUFFIX, b_pdf>>)>>,
      <<Dir(<<"docs">>, <<>>, <<b_exe, a_pdf>>)>>,
      <<Dir(<<"docs">>, <<>>, <<a_pdf, a_pdf \o OCR_RESULT_FILE_SUFFIX,
                                a_result_json_pdf \o OCR_RESULT_FILE_SUFFIX>>)>> }

Prefixes == { <<"kb">>, <<"kb", "/">> }

InitKB ==
    /\ op = "kb"
    /\ target = "file"
    /\ env_ok = TRUE
    /\ classifier_id = "cls-1"
    /\ timeout_seconds = TimeoutOf(op, 0)
    /\ polling_interval_seconds = IntervalOf(op, 0)
    /\ pc = "generate_knowledge_base_on_blob"
    /\ skip_analyze \in BOOLEAN
    /\ prefix \in Prefixes
    /\ walk \in Folders
    /\ items = <<>>
    /\ idx = 0
    /\ resources = <<>>
    /\ http_req = NoRequest
    /\ blobs = {}
    /\ InitCommon

NextKB ==
    \/ generate_knowledge_base_on_blob
    \/ kb_for
    \/ begin_analyze
    \/ poll_result
    \/ poll_check_deadline
    \/ poll_get
    \/ poll_sleep
    \/ kb_upload_json
    \/ kb_upload_file
    \/ kb_upload_only_file
    \/ kb_upload_only_result
    \/ kb_manifest

SpecKB == InitKB /\ [][NextKB]_vars

----------------------------------------------------------------------------
(* Request Builder and Operation Submitter alone: one call of begin_analyze (with a  *)
(* custom analyzer or, from get_prebuilt_document_analyze_result, the prebuilt one)  *)
(* or of begin_classify, on every kind of target; walk is the tree below a directory *)

d_pdf == <<"d", ".pdf">>
README == <<"README">>

Trees ==
    Folders \cup
    { <<Dir(<<"docs">>, <<<<"sub">>>>, <<a_pdf, c_PNG>>),
        Dir(<<"docs", "/", "sub">>, <<>>, <<a_pdf, b_exe>>)>>,
      <<Dir(<<"docs">>, <<d_pdf>>, <<README>>),
        Dir(<<"docs", "/", "d", ".pdf">>, <<>>, <<b_pdf>>)>>,
      <<Dir(<<"docs">>, <<<<"x">>>>, <<>>),
        Dir(<<"docs", "/", "x">>, <<<<"y">>>>, <<b_exe>>),
        Dir(<<"docs", "/", "x", "/", "y">>, <<>>, <<c_PNG>>)>> }

BuildOps == {"analyze", "prebuilt", "classify"}

InitBuild ==
    /\ op \in BuildOps
    /\ target \in Targets
    /\ env_ok = TRUE
    /\ classifier_id = "cls-1"
    /\ timeout_seconds = TimeoutOf(op, MaxTimeout)
    /\ polling_interval_seconds = IntervalOf(op, 1)
    /\ pc = EntryOf(op)
    /\ skip_analyze = FALSE
    /\ prefix = <<>>
    /\ walk \in (IF IsDir(target) THEN Trees ELSE {<<>>})
    /\ items = <<>>
    /\ idx = 0
    /\ resources = <<>>
    /\ http_req = NoRequest
    /\ blobs = {}
    /\ InitCommon

NextBuild ==
    \/ begin_analyze
    \/ begin_classify

SpecBuild == InitBuild /\ [][NextBuild]_vars

----------------------------------------------------------------------------
(* The knowledge-base batch as one coroutine of an asyncio event loop that also has *)
(* another coroutine ready to run.  The loop has one thread: the other coroutine    *)
(* runs only while the batch coroutine has not started, is suspended in an await    *)
(* (the blob uploads) or has ended.  get_prebuilt_document_analyze_result is called *)
(* without await and poll_result waits with time.sleep, which keeps the thread      *)

AwaitPoints == {"kb_upload_json", "kb_upload_file", "kb_upload_only_file",
                "kb_upload_only_result", "kb_manifest"}

(* one step of the other coroutine *)
peer_step ==
    /\ pc \in AwaitPoints \cup {"generate_knowledge_base_on_blob", "returned", "raised"}
    /\ peer < MaxPeerSteps
    /\ peer' = peer + 1
    /\ UNCHANGED <<pc, op, env_ok, classifier_id, http_req, blobs, calls, target, pollVars, kbVars,
                   submitted, request, post_answer, response, payload, uploads, result, error>>

NextLoop ==
    \/ NextKB
    \/ peer_step

SpecLoop == InitKB /\ [][NextLoop]_vars

----------------------------------------------------------------------------
(* Training-data staging: generate_training_data_on_blob.  walk holds the one *)
(* (dirpath, dirnames, filenames) triple of the training folder, items is     *)
(* os.listdir of it, idx the position of the for loop                         *)

LABEL_FILE_SUFFIX == <<".labels", ".json">>

(* os.listdir(training_docs_folder): the names of the files and of the sub-directories *)
ListDir(w) ==
    [k \in 1 .. Len(w[1].filenames) |-> [name |-> w[1].filenames[k], is_file |-> TRUE]]
    \o [k \in 1 .. Len(w[1].dirnames) |-> [name |-> w[1].dirnames[k], is_file |-> FALSE]]

(* `os.path.isfile(file_path) and (file_ext == "" or file_ext.lower() in ...)` *)
IsTrainingDocument(f) ==
    /\ f.is_file
    /\ \/ SplitExt(f.name) = ""
       \/ Lower(SplitExt(f.name)) \in SUPPORTED_FILE_TYPES_DOCUMENT

(* `os.path.exists(label_path) and os.path.exists(ocr_result_path)` *)
SiblingsExist_LabelOnly(w, filename) ==
    filename \o LABEL_FILE_SUFFIX \in Range(w[1].filenames) \cup Range(w[1].dirnames)
SiblingsExist(w, filename) ==
    /\ filename \o LABEL_FILE_SUFFIX \in Range(w[1].filenames) \cup Range(w[1].dirnames)
    /\ filename \o OCR_RESULT_FILE_SUFFIX \in Range(w[1].filenames) \cup Range(w[1].dirnames)

(* the FileNotFoundError of lines 490-494: its message quotes the label file name, *)
(* the OCR result file name and the document name, whichever sibling is missing    *)
SiblingError(filename) ==
    Raise("FileNotFoundError",
          [kind |-> "siblings",
           quoted |-> {filename \o LABEL_FILE_SUFFIX, filename \o OCR_RESULT_FILE_SUFFIX},
           document |-> filename])

(* prefix normalisation and os.listdir *)
generate_training_data_on_blob ==
    /\ pc = "generate_training_data_on_blob"
    /\ prefix' = NormalisePrefix(prefix)
    /\ items' = ListDir(walk)
    /\ idx' = 1
    /\ pc' = "td_for"
    /\ UNCHANGED <<callVars, target, pollVars, skip_analyze, walk, resources, submitted,
                   request, post_answer, response, payload, uploads, result, error>>

(* head of the for loop: the next name is skipped, staged, or raises *)
td_for ==
    /\ pc = "td_for"
    /\ IF idx > Len(items)
       THEN /\ pc' = "returned"
            /\ UNCHANGED <<idx, error>>
       ELSE IF ~IsTrainingDocument(items[idx])
       THEN /\ idx' = idx + 1
            /\ UNCHANGED <<pc, error>>
       ELSE IF SiblingsExist(walk, items[idx].name)
       THEN /\ pc' = "td_upload_file"
            /\ UNCHANGED <<idx, error>>
       ELSE /\ Raised(SiblingError(items[idx].name))
            /\ UNCHANGED idx
    /\ UNCHANGED <<callVars, target, pollVars, skip_analyze, prefix, walk, items, resources,
                   submitted, request, post_answer, response, payload, uploads, result>>

(* the three _upload_file_to_blob calls of a document: the file, its label file, its *)
(* OCR result file; each may raise                                                   *)
td_upload ==
    /\ pc \in {"td_upload_file", "td_upload_label", "td_upload_ocr_result"}
    /\ LET filename == items[idx].name
           name == CASE pc = "td_upload_file"  -> filename
                     [] pc = "td_upload_label" -> filename \o LABEL_FILE_SUFFIX
                     [] OTHER                  -> filename \o OCR_RESULT_FILE_SUFFIX
       IN \E ok \in BOOLEAN :
            IF ok
            THEN /\ uploads' = Append(uploads,
                                      [container |-> "training-data", name |-> prefix \o name,
                                       content |-> <<"file", PathJoin(walk[1].dirpath, name)>>])
                 /\ pc' = CASE pc = "td_upload_file"  -> "td_upload_label"
                            [] pc = "td_upload_label" -> "td_upload_ocr_result"
                            [] OTHER                  -> "td_for"
                 /\ idx' = IF pc = "td_upload_ocr_result" THEN idx + 1 ELSE idx
                 /\ UNCHANGED error
            ELSE /\ Raised(Raise("AzureError", NoPayload))
                 /\ UNCHANGED <<uploads, idx>>
    /\ UNCHANGED <<callVars, target, pollVars, skip_analyze, prefix, walk, items, resources,
                   submitted, request, post_answer, response, payload, result>>

TrainingFolders ==
    LET a_full == <<a_pdf, a_pdf \o LABEL_FILE_SUFFIX, a_pdf \o OCR_RESULT_FILE_SUFFIX>> IN
    { <<Dir(<<"train">>, <<>>, <<>>)>>,
      <<Dir(<<"train">>, <<>>, a_full)>>,
      <<Dir(<<"train">>, <<>>, a_full \o <<b_pdf, b_pdf \o LABEL_FILE_SUFFIX>>)>>,
      <<Dir(<<"train">>, <<>>, a_full \o <<b_pdf, b_pdf \o OCR_RESULT_FILE_SUFFIX>>)>>,
      <<Dir(<<"train">>, <<>>, a_full \o <<b_pdf>>)>>,
      <<Dir(<<"train">>, <<>>, <<b_pdf, b_pdf \o OCR_RESULT_FILE_SUFFIX>> \o a_full)>>,
      <<Dir(<<"train">>, <<<<"sub">>>>,
            <<b_exe, README, README \o LABEL_FILE_SUFFIX, README \o OCR_RESULT_FILE_SUFFIX>>)>>,
      <<Dir(<<"train">>, <<>>,
            <<c_PNG, c_PNG \o LABEL_FILE_SUFFIX, c_PNG \o OCR_RESULT_FILE_SUFFIX>> \o a_full)>>,
      <<Dir(<<"train">>, <<d_pdf>>, <<README, b_exe>>)>>,
      <<Dir(<<"train">>, <<b_pdf \o OCR_RESULT_FILE_SUFFIX>>,
            a_full \o <<c_PNG, c_PNG \o LABEL_FILE_SUFFIX, c_PNG \o OCR_RESULT_FILE_SUFFIX,
                        b_pdf, b_pdf \o LABEL_FILE_SUFFIX>>)>> }

InitTraining ==
    /\ op = "training"
    /\ target = "dir"
    /\ env_ok = TRUE
    /\ classifier_id = "cls-1"
    /\ timeout_seconds = POLL_TIMEOUT_SECONDS
    /\ polling_interval_seconds = DEFAULT_POLLING_INTERVAL
    /\ pc = "generate_training_data_on_blob"
    /\ skip_analyze = FALSE
    /\ prefix \in Prefixes
    /\ walk \in TrainingFolders
    /\ items = <<>>
    /\ idx = 0
    /\ resources = <<>>
    /\ http_req = NoRequest
    /\ blobs = {}
    /\ InitCommon

NextTraining ==
    \/ generate_training_data_on_blob
    \/ td_for
    \/ td_upload

SpecTraining == InitTraining /\ [][NextTraining]_vars

----------------------------------------------------------------------------
(* The HTTP handlers of function_app.py.  http_req is the HttpRequest: the handler, *)
(* the parameters given a non-empty value in the query string, and the body, which  *)
(* is not JSON (get_json raises ValueError), a JSON object with some of the         *)
(* parameters, or a non-empty JSON array                                            *)

Handlers == {"perform_ocr", "create_excel", "clean_up", "parse_ocr"}

(* the parameter each handler reads first, and all it requires *)
FirstParam(h) ==
    CASE h = "perform_ocr" -> "classifier_id"
      [] h = "clean_up"    -> "incoming_docs_blob_name"
      [] OTHER             -> "ocr_result_blob_name"

Required(h) ==
    IF h = "perform_ocr" THEN {"classifier_id", "blob_url", "storage_account_name"}
    ELSE {FirstParam(h), "storage_account_name"}

HttpRequests ==
    {[handler |-> h, params |-> q, body |-> b] :
        h \in Handlers, q \in SUBSET {"classifier_id", "blob_url", "storage_account_name",
                                      "incoming_docs_blob_name", "ocr_result_blob_name"},
        b \in {[kind |-> "invalid", keys |-> {}], [kind |-> "array", keys |-> {}],
               [kind |-> "object", keys |-> {}],
               [kind |-> "object", keys |-> {"storage_account_name"}],
               [kind |-> "object", keys |-> {"classifier_id", "blob_url",
                                              "storage_account_name",
                                              "incoming_docs_blob_name",
                                              "ocr_result_blob_name"}]}}

(* the parameters the handler holds after `x = x or req_body.get('x')` *)
Resolved(r) == (r.params \cup r.body.keys) \cap Required(r.handler)

(* req_body.get on a truthy body that is not a dict *)
BodyRaises(r) == ~(Required(r.handler) \subseteq r.params) /\ r.body.kind = "array"

(* func.HttpResponse(..., status_code=code) *)
HttpResponse(code) == [kind |-> "HttpResponse", status_code |-> code]

(* the statements of a handler up to the end of its parameter validation: "ok",  *)
(* "missing" when the 400 response is built and returned, or the exception that *)
(* one of them raises                                                            *)
Preflight(r, env) ==
    IF r.handler = "perform_ocr"
    THEN IF BodyRaises(r) THEN "AttributeError"
         ELSE IF Resolved(r) # Required(r.handler) THEN "missing"
         ELSE "ok"
    ELSE IF ~env THEN "ValueError"                            \* ClientSecretCredential(None, ...)
    ELSE IF FirstParam(r.handler) \notin r.params THEN "TypeError"   \* str + None
    ELSE IF BodyRaises(r) THEN "AttributeError"
    ELSE IF Resolved(r) # Required(r.handler) THEN "TypeError"       \* json.dumps of req
    ELSE "ok"

(* the handler returns an HttpResponse *)
Respond(code) ==
    /\ pc' = "responded"
    /\ result' = HttpResponse(code)
    /\ UNCHANGED error

(* an exception inside a handler: perform_ocr and create_excel answer 500 from their  *)
(* except clause, clean_up does so inside its try block only, and the except clause   *)
(* of parse_ocr reads summary_report_blob_name, unbound, and raises UnboundLocalError *)
Except(h, in_try, type) ==
    IF h \in {"perform_ocr", "create_excel"} \/ (h = "clean_up" /\ in_try)
    THEN Respond(500)
    ELSE /\ Raised(Raise(IF h = "parse_ocr" THEN "UnboundLocalError" ELSE type, NoPayload))
         /\ UNCHANGED result

(* a handler from its first statement to the end of the parameter validation *)
Enter(h, next) ==
    /\ pc = h
    /\ LET p == Preflight(http_req, env_ok) IN
       IF p = "ok" THEN /\ pc' = next
                        /\ UNCHANGED <<result, error>>
       ELSE IF p = "missing" THEN Respond(400)
       ELSE Except(h, FALSE, p)
    /\ UNCHANGED <<callVars, target, pollVars, kbVars, submitted, request, post_answer,
                   response, payload, uploads>>

perform_ocr == Enter("perform_ocr", "perform_ocr_processing")

create_excel == Enter("create_excel", "report_step")

parse_ocr == Enter("parse_ocr", "report_step")

clean_up == Enter("clean_up", "clean_up_step")

(* perform_ocr after perform_ocr_processing: the 200 response, or 500 from the except *)
perform_ocr_respond ==
    /\ http_req # NoRequest
    /\ http_req.handler = "perform_ocr"
    /\ pc \in {"returned", "raised"}
    /\ pc' = "responded"
    /\ result' = HttpResponse(IF pc = "returned" THEN 200 ELSE 500)
    /\ UNCHANGED <<callVars, target, pollVars, kbVars, submitted, request, post_answer,
                   response, payload, uploads, error>>

(* create_excel and parse_ocr after the validation: the download of the OCR result *)
(* and the report; idx counts the calls made                                       *)
ReportSteps == <<"download_blob", "produce_report">>

report_step ==
    /\ pc = "report_step"
    /\ calls' = Append(calls, ReportSteps[idx + 1])
    /\ idx' = idx + 1
    /\ \E ok \in BOOLEAN :
        IF ~ok THEN Except(http_req.handler, TRUE, "AzureError")
        ELSE IF idx + 1 = Len(ReportSteps) THEN Respond(200)
        ELSE UNCHANGED <<pc, result, error>>
    /\ UNCHANGED <<op, env_ok, classifier_id, http_req, blobs, peer, target, pollVars,
                   skip_analyze, prefix, walk, items, resources, submitted, request,
                   post_answer, response, payload, uploads>>

(* the try block of clean_up, one storage call at a time *)
CleanUpSteps_DeleteFirst == <<"download_blob", "delete_blob", "upload_blob">>
CleanUpSteps == <<"download_blob", "upload_blob", "delete_blob">>

clean_up_step ==
    /\ pc = "clean_up_step"
    /\ calls' = Append(calls, CleanUpSteps[idx + 1])
    /\ idx' = idx + 1
    /\ LET step == CleanUpSteps[idx + 1] IN
       \E ok \in (IF step = "upload_blob" \/ "incoming-docs" \in blobs THEN BOOLEAN ELSE {FALSE}) :
        IF ~ok THEN /\ Except("clean_up", TRUE, "AzureError")
                    /\ UNCHANGED blobs
        ELSE /\ blobs' = CASE step = "upload_blob" -> blobs \cup {"processed-docs"}
                           [] step = "delete_blob" -> blobs \ {"incoming-docs"}
                           [] OTHER                -> blobs
             /\ IF idx + 1 = Len(CleanUpSteps) THEN Respond(200)
                ELSE UNCHANGED <<pc, result, error>>
    /\ UNCHANGED <<op, env_ok, classifier_id, http_req, peer, target, pollVars,
                   skip_analyze, prefix, walk, items, resources, submitted, request,
                   post_answer, response, payload, uploads>>

InitHandlers ==
    /\ http_req \in HttpRequests
    /\ http_req.params \cup http_req.body.keys \subseteq Required(http_req.handler)
    /\ op = (IF http_req.handler = "perform_ocr" THEN "ocr" ELSE http_req.handler)
    /\ pc = http_req.handler
    /\ target = "https_url"
    /\ env_ok \in BOOLEAN
    /\ classifier_id = "cls-1"
    /\ timeout_seconds = TimeoutOf(op, MaxTimeout)
    /\ polling_interval_seconds = IntervalOf(op, 1)
    /\ blobs \in (IF op = "clean_up" THEN {{"incoming-docs"}, {}} ELSE {{}})
    /\ skip_analyze = FALSE
    /\ prefix = <<>>
    /\ walk = <<>>
    /\ items = <<>>
    /\ idx = 0
    /\ resources = <<>>
    /\ InitCommon

NextHandlers ==
    \/ perform_ocr
    \/ create_excel
    \/ clean_up
    \/ parse_ocr
    \/ perform_ocr_processing
    \/ begin_classify
    \/ poll_result
    \/ poll_check_deadline
    \/ poll_get
    \/ poll_sleep
    \/ ocr_upload
    \/ perform_ocr_respond
    \/ report_step
    \/ clean_up_step

SpecHandlers == InitHandlers /\ [][NextHandlers]_vars

----------------------------------------------------------------------------
(* Properties of the knowledge-base batch *)

ManifestName == prefix \o KNOWLEDGE_SOURCE_LIST_FILE_NAME

ManifestUploaded == \E k \in DOMAIN uploads : uploads[k].name = ManifestName

RunFailed == error # NoError

(* the submit+poll call of the item at position idx raised *)
SubmitPollFailed ==
    /\ op = "kb" /\ ~skip_analyze /\ idx >= 1
    /\ error.type \in {"ValueError", "ConnectionError", "HTTPError", "TimeoutError",
                       "RuntimeError", "AttributeError", "JSONDecodeError"}

(* C9: in analyze mode a failed submit+poll aborts the run with that error: no job is *)
(* submitted for a later file and the manifest is never uploaded                      *)
C9_AbortAtFirstFailure ==
    SubmitPollFailed =>
        /\ pc = "raised"
        /\ idx <= Len(items)
        /\ \A k \in DOMAIN submitted : submitted[k] <= idx
        /\ Len(submitted) <= idx
        /\ ~ManifestUploaded
        /\ Len(resources) = idx - 1

C9_Witness ==
    /\ SubmitPollFailed /\ error.type = "RuntimeError"
    /\ pc = "raised" /\ idx = 2 /\ Len(items) = 3

(* C10 as stated: after a run that ends in an error nothing has been uploaded *)
C10_Original == (op = "kb" /\ RunFailed) => uploads = <<>>

(* the two blobs of the item at position j, in the order the mode uploads them *)
BlobNamesOf(j) ==
    IF skip_analyze
    THEN <<prefix \o items[j].filename, prefix \o items[j].result_file_name>>
    ELSE <<prefix \o items[j].result_file_name, prefix \o items[j].filename>>

(* C10 amended: after a run that ends in an error the manifest has not been uploaded  *)
(* and nothing of a file after the failing position has been; both blobs of every     *)
(* file processed before it, and at most the first blob of the file at it, have been  *)
C10_NoManifestAfterFailure ==
    (op = "kb" /\ RunFailed) =>
        /\ pc = "raised"
        /\ ~ManifestUploaded
        /\ idx = 0 => uploads = <<>>
        /\ idx >= 1 =>
              /\ Len(resources) = idx - 1
              /\ Len(uploads) \in {2 * (idx - 1)} \cup
                                  (IF idx <= Len(items) THEN {2 * (idx - 1) + 1} ELSE {})
              /\ \A k \in DOMAIN uploads :
                    uploads[k].name = BlobNamesOf((k + 1) \div 2)[2 - (k % 2)]

C10_Witness ==
    /\ op = "kb" /\ RunFailed /\ SubmitPollFailed
    /\ idx = 2 /\ Len(uploads) = 2

(* str.splitlines of the manifest text *)
SplitLines(text) == Split(text, "\n")

(* json.loads of a manifest line: the record, or NoPayload when the line is not one *)
ParseLine(line) ==
    LET mid == {k \in DOMAIN line : line[k] = JsonMid} IN
    IF Len(line) >= 3 /\ line[1] = JsonOpen /\ line[Len(line)] = JsonClose /\ Cardinality(mid) = 1
    THEN LET m == CHOOSE k \in mid : TRUE IN
         [file |-> SubSeq(line, 2, m - 1), resultFile |-> SubSeq(line, m + 1, Len(line) - 1)]
    ELSE NoPayload

(* the names of the files the run processes, in the order os.walk enumerates them *)
Processed ==
    LET docs == SelectSeq(WalkEntries(walk), LAMBDA e : is_supported_doc_type_by_file_ext(SplitExt(e.filename), TRUE)) IN
    [k \in DOMAIN docs |-> docs[k].filename]

KbSucceeded == op = "kb" /\ pc = "returned"

(* C11: after a successful run, in either mode, the last upload is sources.jsonl and  *)
(* its lines are, in enumeration order, one record {file, resultFile} per processed   *)
(* file with resultFile = file + ".result.json"                                       *)
C11_ManifestLines ==
    KbSucceeded =>
        /\ uploads # <<>>
        /\ LET manifest == uploads[Len(uploads)]
               lines == SplitLines(manifest.content)
           IN /\ manifest.name = ManifestName
              /\ Len(lines) = Len(Processed)
              /\ Len(lines) = Len(items)
              /\ \A k \in DOMAIN lines :
                    ParseLine(lines[k]) =
                        [file |-> Processed[k],
                         resultFile |-> Processed[k] \o OCR_RESULT_FILE_SUFFIX]

C11_Witness ==
    /\ KbSucceeded
    /\ Len(SplitLines(uploads[Len(uploads)].content)) = 3

(* the files of the tree, in enumeration order, whose extension is outside the *)
(* 7-extension document allow-list                                             *)
OutOfList ==
    SelectSeq(WalkEntries(walk),
              LAMBDA e : Lower(SplitExt(e.filename)) \notin SUPPORTED_FILE_TYPES_DOCUMENT)

KbStarted == op = "kb" /\ pc # "generate_knowledge_base_on_blob"

(* C12: in analyze mode a folder holding, at any depth, a file outside the document   *)
(* allow-list makes the run fail with ValueError naming the first such file, before   *)
(* any submit or status request for any file, and nothing is uploaded                 *)
C12_InvalidFileBeforeAnyRequest ==
    (KbStarted /\ ~skip_analyze /\ OutOfList # <<>>) =>
        /\ pc = "raised"
        /\ error = [type |-> "ValueError", payload |-> Named(OutOfList[1].filename)]
        /\ submitted = <<>>
        /\ request = NoRequest
        /\ queries = 0
        /\ uploads = <<>>

C12_Witness ==
    /\ KbStarted /\ ~skip_analyze
    /\ Len(walk) = 2
    /\ OutOfList # <<>>
    /\ OutOfList[1].dirpath # walk[1].dirpath
    /\ error.type = "ValueError"

(* the positions, in enumeration order, of the eligible source files that have no *)
(* '<filename>.result.json' in their folder                                       *)
Lacking ==
    LET entries == WalkEntries(walk) IN
    {k \in DOMAIN entries :
        /\ Lower(SplitExt(entries[k].filename)) \in SUPPORTED_FILE_TYPES_DOCUMENT
        /\ entries[k].filename \o OCR_RESULT_FILE_SUFFIX
               \notin Range(entries[k].filenames) \cup Range(entries[k].dirnames)}

FirstLacking == CHOOSE k \in Lacking : \A j \in Lacking : k <= j

SourceOf(filename) == SubSeq(filename, 1, Len(filename) - Len(OCR_RESULT_FILE_SUFFIX))

(* the positions of the files ending in '.result.json' whose source file is absent *)
(* from their folder or is not a supported document                                *)
Stray ==
    LET entries == WalkEntries(walk) IN
    {k \in DOMAIN entries :
        /\ EndsWith(entries[k].filename, OCR_RESULT_FILE_SUFFIX)
        /\ \/ SourceOf(entries[k].filename) \notin Range(entries[k].filenames)
           \/ Lower(SplitExt(SourceOf(entries[k].filename))) \notin SUPPORTED_FILE_TYPES_DOCUMENT}

(* C14 as stated: in upload-only mode a '.result.json' file whose source file is  *)
(* absent or unsupported makes the list building, and so the run, fail with an    *)
(* error                                                                          *)
C14_Original ==
    (KbStarted /\ skip_analyze /\ Stray # {}) => error # NoError

----------------------------------------------------------------------------
(* Properties of the request builder *)

(* begin_analyze or begin_classify was called and has ended or handed over to the poller *)
BuildDone == pc \notin {"begin_analyze", "begin_classify"}

AnalyzeCall == op \in {"analyze", "prebuilt"}

(* the files of the tree, in enumeration order, inside the document allow-list *)
InList ==
    SelectSeq(WalkEntries(walk),
              LAMBDA e : Lower(SplitExt(e.filename)) \in SUPPORTED_FILE_TYPES_DOCUMENT)

(* a name with every underscore replaced by a path separator *)
Slashed(name) == [k \in DOMAIN name |-> IF name[k] = "_" THEN "/" ELSE name[k]]

(* C15 as stated: begin_analyze on a directory holding a file outside the allow-list *)
(* fails and sends no request                                                        *)
C15_Original ==
    (BuildDone /\ AnalyzeCall /\ IsDir(target) /\ OutOfList # <<>>) =>
        /\ request = NoRequest
        /\ error # NoError

(* C15 amended: begin_analyze on a directory holding a file outside the allow-list   *)
(* does not fail for it: the request is sent, with as many entries as the tree has   *)
(* allow-listed files, and the only errors are those of the HTTP exchange            *)
C15_OutOfListFilesSkipped ==
    (BuildDone /\ AnalyzeCall /\ IsDir(target) /\ OutOfList # <<>>) =>
        /\ request # NoRequest
        /\ Len(request.body.inputs) = Len(InList)
        /\ error.type \in {"none", "ConnectionError", "HTTPError"}

C15_Witness ==
    /\ BuildDone /\ AnalyzeCall /\ IsDir(target)
    /\ OutOfList # <<>> /\ InList # <<>>
    /\ pc = "poll_result"

(* C16: the body begin_analyze builds for a directory has, in enumeration order, one  *)
(* entry per allow-listed file of the tree and no other; an entry's name is the       *)
(* file's path relative to the root with its segments joined by underscores           *)
C16_EntriesOfAllowListedFiles ==
    (BuildDone /\ AnalyzeCall /\ IsDir(target)) =>
        /\ request # NoRequest
        /\ Len(request.body.inputs) = Len(InList)
        /\ \A k \in DOMAIN InList :
              /\ walk[1].dirpath \o <<"/">> \o Slashed(request.body.inputs[k].name)
                    = InList[k].dirpath \o <<"/">> \o InList[k].filename
              /\ "/" \notin Range(request.body.inputs[k].name)

C16_Witness ==
    /\ BuildDone /\ AnalyzeCall /\ IsDir(target)
    /\ \E k \in DOMAIN request.body.inputs :
          request.body.inputs[k].name = <<"x", "_", "y", "_", "c", ".PNG">>

(* C17: a submission for an existing local file is sent as application/octet-stream   *)
(* with the file's bytes, one for a URL as application/json with the body {url: ...}  *)
C17_ContentTypeMatchesTarget ==
    (BuildDone /\ request # NoRequest) =>
        /\ IsFile(target) =>
              /\ request.content_type = "application/octet-stream"
              /\ request.sent_as = "data"
              /\ request.body = [bytes |-> target]
        /\ IsUrlLike(target) =>
              /\ request.content_type = "application/json"
              /\ request.sent_as = "json"
              /\ request.body = [url |-> target]

C17_Witness ==
    /\ BuildDone /\ op = "classify" /\ IsFile(target)
    /\ request # NoRequest
    /\ request.content_type = "application/octet-stream"

(* C18 as stated: a directory given to begin_classify, or to begin_analyze with the *)
(* standard prebuilt analyzer, is rejected with ValueError and no request is sent   *)
C18_Original ==
    (BuildDone /\ IsDir(target) /\ op \in {"classify", "prebuilt"}) =>
        /\ error.type = "ValueError"
        /\ request = NoRequest

(* C18 amended: begin_classify on a directory raises IsADirectoryError and sends no *)
(* request; begin_analyze on a directory sends the multi-input request whatever the *)
(* analyzer, the standard prebuilt one included                                     *)
C18_DirectoryPerOperation ==
    (BuildDone /\ IsDir(target)) =>
        /\ op = "classify" =>
              /\ error = Raise("IsADirectoryError", NoPayload)
              /\ request = NoRequest
              /\ submitted = <<>>
        /\ AnalyzeCall =>
              /\ request # NoRequest
              /\ request.id = AnalyzerOf(op)
              /\ request.sent_as = "json"
              /\ DOMAIN request.body = {"inputs"}
              /\ error.type # "ValueError"

C18_Witness ==
    /\ BuildDone /\ IsDir(target) /\ op = "prebuilt"
    /\ request # NoRequest
    /\ request.id = PREBUILT_DOCUMENT_ANALYZER_ID
    /\ Len(request.body.inputs) >= 2

(* C19: a location that neither exists nor contains 'http://' or 'https://' makes *)
(* begin_analyze and begin_classify raise ValueError without sending a request    *)
C19_InvalidLocation ==
    (BuildDone /\ ~Exists(target) /\ ~(target \in {"https_url", "http_url"})) =>
        /\ pc = "raised"
        /\ error = Raise("ValueError", NoPayload)
        /\ request = NoRequest
        /\ submitted = <<>>
        /\ post_answer = NoResponse

C19_Witness ==
    /\ BuildDone /\ target = "nothing" /\ op = "classify"
    /\ error.type = "ValueError"

----------------------------------------------------------------------------
(* Properties of the training-data staging *)

(* the siblings of the document at position idx that the folder does not hold *)
MissingSiblings ==
    {n \in {items[idx].name \o LABEL_FILE_SUFFIX, items[idx].name \o OCR_RESULT_FILE_SUFFIX} :
        n \notin Range(walk[1].filenames) \cup Range(walk[1].dirnames)}

(* C20 as stated: the error raised for a document that lacks a sibling identifies *)
(* exactly which of the two siblings is missing                                   *)
C20_Original ==
    (op = "training" /\ error.type = "FileNotFoundError") =>
        error.payload.quoted = MissingSiblings

(* C20 amended: the loop never goes past a document that lacks its labels or its     *)
(* result sibling: reaching it raises FileNotFoundError, whose message quotes both   *)
(* sibling names and the document whichever is missing, and none of the document's   *)
(* three blobs is uploaded                                                           *)
C20_MissingSiblingAborts ==
    (op = "training" /\ idx >= 1 /\ idx <= Len(items)) =>
        LET doc == items[idx]
            source == doc.is_file /\ (Len(doc.name) = 1 \/
                          Lower(doc.name[Len(doc.name)]) \in SUPPORTED_FILE_TYPES_DOCUMENT)
            staged == {uploads[k].name : k \in DOMAIN uploads}
        IN /\ (source /\ MissingSiblings # {} /\ pc # "td_for") =>
                /\ pc = "raised"
                /\ error.type = "FileNotFoundError"
                /\ error.payload.quoted = {doc.name \o LABEL_FILE_SUFFIX,
                                           doc.name \o OCR_RESULT_FILE_SUFFIX}
                /\ error.payload.document = doc.name
                /\ staged \cap {prefix \o doc.name, prefix \o doc.name \o LABEL_FILE_SUFFIX,
                                prefix \o doc.name \o OCR_RESULT_FILE_SUFFIX} = {}
           /\ error.type = "FileNotFoundError" => (source /\ MissingSiblings # {})
           /\ \A j \in 1 .. (idx - 1) :
                 LET n == items[j].name IN
                 (items[j].is_file /\ (Len(n) = 1 \/
                        Lower(n[Len(n)]) \in SUPPORTED_FILE_TYPES_DOCUMENT))
                     => {n \o LABEL_FILE_SUFFIX, n \o OCR_RESULT_FILE_SUFFIX}
                            \subseteq Range(walk[1].filenames) \cup Range(walk[1].dirnames)

C20_Witness ==
    /\ op = "training" /\ pc = "raised" /\ idx = 4
    /\ error.type = "FileNotFoundError"
    /\ Cardinality(MissingSiblings) = 1
    /\ Len(uploads) = 3

----------------------------------------------------------------------------
(* Further properties of the poller *)

(* the body of the last status query was read: no transport failure, a JSON body *)
(* with a string in its status field                                             *)
LastStatusRead == last.kind = "http" /\ last.code < 400 /\ last.status \in Statuses

(* C22: a status string is classified whatever its casing: 'succeeded' ends polling   *)
(* with a return, 'failed' with RuntimeError, any other string leads to a sleep of    *)
(* exactly polling_interval_seconds and back to the top of the loop, without an error *)
C22_StatusClassification ==
    [][ /\ (pc = "poll_get" /\ last'.kind = "http" /\ last'.code < 400
               /\ last'.status \in Statuses) =>
              /\ last'.status \in SucceededSpellings =>
                    (pc' \in {"returned", "ocr_upload", "kb_upload_json"}
                        /\ payload' = last' /\ error' = NoError)
              /\ last'.status \in FailedSpellings =>
                    (pc' = "raised" /\ error'.type = "RuntimeError" /\ payload' = NoPayload)
              /\ last'.status \in {"running", "NotStarted", "bogus"} =>
                    (pc' = "poll_sleep" /\ error' = NoError /\ payload' = NoPayload)
        /\ pc = "poll_sleep" =>
              /\ pc' = "poll_loop"
              /\ clock' = clock + polling_interval_seconds
              /\ queries' = queries
              /\ error' = NoError ]_vars

C22_Witness ==
    /\ pc = "poll_loop" /\ sleeps = 2
    /\ last.status = "bogus"
    /\ slept = 2 * polling_interval_seconds

(* C23: once a status query has answered 'succeeded' or 'failed', poll_result issues *)
(* no further status query and sleeps no more                                        *)
C23_TerminalAbsorbing ==
    [][ (LastStatusRead /\ last.status \in SucceededSpellings \cup FailedSpellings) =>
            /\ queries' = queries
            /\ sleeps' = sleeps
            /\ slept' = slept
            /\ last' = last
            /\ pc' \notin {"poll_loop", "poll_get", "poll_sleep"} ]_vars

C23_Witness ==
    /\ LastStatusRead /\ last.status = "FAILED"
    /\ queries = 2 /\ sleeps = 1 /\ pc = "raised"

(* C26 as stated: with polling_interval_seconds >= timeout_seconds, equality included, *)
(* poll_result issues at most one status query                                         *)
C26_Original ==
    polling_interval_seconds >= timeout_seconds => queries <= 1

(* C26 amended: with polling_interval_seconds > timeout_seconds at most one status     *)
(* query is issued; with polling_interval_seconds = timeout_seconds at most two, the   *)
(* second only when the clock read after the sleep is exactly timeout_seconds past     *)
(* start_time, which the strict comparison lets through                                *)
C26_AtMostOneWhenLonger ==
    [][ /\ polling_interval_seconds > timeout_seconds => queries' <= 1
        /\ polling_interval_seconds = timeout_seconds =>
              /\ queries' <= 2
              /\ (queries = 1 /\ queries' = 2) => elapsed_time = timeout_seconds ]_vars

C26_Witness ==
    /\ polling_interval_seconds > timeout_seconds
    /\ queries = 1 /\ sleeps = 1
    /\ error.type = "TimeoutError"

(* C27: poll_result hands back a payload only when its last status query answered     *)
(* 'succeeded' in some casing, and the payload is that answer; every other way out is *)
(* an exception and nothing is returned                                               *)
C27_ReturnOnlyOnSucceeded ==
    /\ payload # NoPayload =>
          /\ LastStatusRead
          /\ last.status \in SucceededSpellings
          /\ payload = last
          /\ last.seq = queries
    /\ (response.kind = "http" /\ pc \in {"returned", "raised", "ocr_upload"}
           /\ payload = NoPayload) =>
          /\ pc = "raised"
          /\ result = NoResult
          /\ error.type \in {"TimeoutError", "RuntimeError", "ConnectionError", "HTTPError",
                             "ValueError", "JSONDecodeError", "AttributeError"}
          /\ error.type = "ValueError" <=> ~HandlePresent
          /\ error.type = "AttributeError" => last.status = Absent

C27_Witness ==
    /\ pc = "raised" /\ error.type = "AttributeError"
    /\ payload = NoPayload /\ queries = 2

----------------------------------------------------------------------------
(* Further properties of the knowledge-base batch *)

(* C24: in analyze mode the files are submitted one at a time in enumeration order:   *)
(* a submit request is issued only while no submit+poll cycle is in progress, for the *)
(* file right after the last one submitted, and when the result JSON and the source   *)
(* file of every earlier file have been uploaded and recorded                         *)
C24_SequentialCycles ==
    [][ (op = "kb" /\ Len(submitted') > Len(submitted)) =>
            /\ pc = "begin_analyze"
            /\ submitted' = Append(submitted, Len(submitted) + 1)
            /\ idx = Len(submitted) + 1
            /\ queries = 0 /\ payload = NoPayload
            /\ Len(resources) = idx - 1
            /\ Len(uploads) = 2 * (idx - 1)
            /\ \A j \in 1 .. (idx - 1) :
                  /\ uploads[2 * j - 1] = Blob(prefix \o items[j].result_file_name,
                                               <<"analyze_result", items[j].file_path>>)
                  /\ uploads[2 * j].name = prefix \o items[j].filename ]_vars

C24_Witness ==
    /\ op = "kb" /\ ~skip_analyze
    /\ submitted = <<1, 2, 3>>
    /\ Len(uploads) = 4
    /\ pc = "poll_sleep"

(* C25 as stated: no two distinct source files of one batch, files of different *)
(* sub-directories included, get the same result-artifact name or the same      *)
(* destination blob path                                                        *)
C25_Original ==
    op = "kb" =>
        \A i, j \in DOMAIN items :
            items[i].file_path # items[j].file_path =>
                /\ items[i].result_file_name # items[j].result_file_name
                /\ prefix \o items[i].filename # prefix \o items[j].filename

(* C28: the manifest sources.jsonl is uploaded once, as the last blob of the run, and *)
(* when it is uploaded the source blob and the result blob of every entry it lists    *)
(* have already been uploaded under the same prefix                                   *)
C28_ManifestLast ==
    (op = "kb" /\ ManifestUploaded) =>
        LET n == Len(uploads)
            lines == SplitLines(uploads[n].content)
        IN /\ uploads[n].name = ManifestName
           /\ \A k \in 1 .. (n - 1) : uploads[k].name # ManifestName
           /\ pc = "returned"
           /\ \A l \in DOMAIN lines :
                 /\ \E k \in 1 .. (n - 1) : uploads[k].name = prefix \o ParseLine(lines[l]).file
                 /\ \E k \in 1 .. (n - 1) :
                       uploads[k].name = prefix \o ParseLine(lines[l]).resultFile

C28_Witness ==
    /\ op = "kb" /\ skip_analyze /\ ManifestUploaded
    /\ Len(uploads) = 5

----------------------------------------------------------------------------
(* Properties of the batch on the event loop *)

(* C21 as stated: while poll_result waits for the polling interval inside a batch run, *)
(* another coroutine of the same event loop can make progress                          *)
C21_Original ==
    (op = "kb" /\ pc = "poll_sleep" /\ peer < MaxPeerSteps) => ENABLED peer_step

----------------------------------------------------------------------------
(* Properties of the HTTP handlers *)

(* C29: clean_up deletes the blob from incoming-docs only after its content was  *)
(* uploaded to processed-docs: content that is in one of the two containers stays *)
(* in at least one of them, and a download or upload that fails is answered 500   *)
(* with the source left in place and no delete attempted                          *)
C29_DeleteAfterCopy ==
    [][ op = "clean_up" =>
          /\ blobs # {} => blobs' # {}
          /\ ("incoming-docs" \in blobs /\ "incoming-docs" \notin blobs') =>
                /\ "processed-docs" \in blobs
                /\ calls = <<"download_blob", "upload_blob">>
          /\ (pc = "clean_up_step" /\ pc' = "responded"
                 /\ calls' \in {<<"download_blob">>, <<"download_blob", "upload_blob">>}) =>
                /\ result' = HttpResponse(500)
                /\ blobs' = blobs ]_vars

C29_Witness ==
    /\ op = "clean_up" /\ pc = "responded"
    /\ calls = <<"download_blob", "upload_blob">>
    /\ result = HttpResponse(500)
    /\ blobs = {"incoming-docs"}

(* C30 as stated: a handler called with one of its required parameters absent from *)
(* both the query string and the JSON body answers 400 without raising and without *)
(* any service or storage call                                                     *)
C30_Original ==
    (http_req # NoRequest /\ pc # http_req.handler
        /\ Resolved(http_req) # Required(http_req.handler)) =>
        /\ pc = "responded"
        /\ result = HttpResponse(400)
        /\ error = NoError
        /\ calls = <<>>
        /\ request = NoRequest

====
